---- MODULE Spec2Model ----
(***************************************************************************)
(* CodeReviewAgent (src/src/agents/code_reviewer.py): analyze awaits one   *)
(* response of the model collaborator and parses it with a line-prefix     *)
(* scan.  Strings are sequences of one-character strings, so startswith,   *)
(* slicing, strip, split and int are computed character by character.      *)
(***************************************************************************)
EXTENDS Integers, Sequences, FiniteSets, TLC

(* ------------------------------ bounds -------------------------------- *)
MaxLines == 3
NumCalls == 2

Calls == 1..NumCalls
SeqCalls == {1}
Diffs == {"diff_a", "diff_b"}

(* --------------------------- string library --------------------------- *)
\* characters str.strip() removes
Whitespace == {" ", "\t", "\n", "\r", "\f"}

Digits == {"0", "1", "2", "3", "4", "5", "6", "7", "8", "9"}

DigitVal(ch) ==
    CASE ch = "0" -> 0 [] ch = "1" -> 1 [] ch = "2" -> 2 [] ch = "3" -> 3
      [] ch = "4" -> 4 [] ch = "5" -> 5 [] ch = "6" -> 6 [] ch = "7" -> 7
      [] ch = "8" -> 8 [] ch = "9" -> 9

\* s.startswith(p)
startswith(s, p) == Len(s) >= Len(p) /\ SubSeq(s, 1, Len(p)) = p

\* s[n:]
SliceFrom(s, n) == SubSeq(s, n + 1, Len(s))

RECURSIVE lstrip(_)
lstrip(s) ==
    IF s # <<>> /\ Head(s) \in Whitespace THEN lstrip(Tail(s)) ELSE s

RECURSIVE rstrip(_)
rstrip(s) ==
    IF s # <<>> /\ s[Len(s)] \in Whitespace
    THEN rstrip(SubSeq(s, 1, Len(s) - 1))
    ELSE s

\* s.strip()
strip(s) == rstrip(lstrip(s))

RECURSIVE SplitAcc(_, _, _, _)
SplitAcc(s, sep, i, cur) ==
    IF i > Len(s) THEN <<cur>>
    ELSE IF s[i] = sep THEN <<cur>> \o SplitAcc(s, sep, i + 1, <<>>)
    ELSE SplitAcc(s, sep, i + 1, Append(cur, s[i]))

\* s.split(sep) for a one-character separator
split(s, sep) == SplitAcc(s, sep, 1, <<>>)

\* the digits part of an int literal: digits, single underscores between them
IsDigitRun(t) ==
    /\ t # <<>>
    /\ \A i \in 1..Len(t) : t[i] \in Digits \cup {"_"}
    /\ t[1] \in Digits
    /\ t[Len(t)] \in Digits
    /\ \A i \in 1..(Len(t) - 1) : ~(t[i] = "_" /\ t[i + 1] = "_")

Unsigned(s) == IF s # <<>> /\ Head(s) \in {"+", "-"} THEN Tail(s) ELSE s

\* int(s) does not raise ValueError
IsIntLiteral(s) == IsDigitRun(Unsigned(strip(s)))

RECURSIVE DigitRunValue(_, _)
DigitRunValue(t, acc) ==
    IF t = <<>> THEN acc
    ELSE IF Head(t) = "_" THEN DigitRunValue(Tail(t), acc)
    ELSE DigitRunValue(Tail(t), 10 * acc + DigitVal(Head(t)))

\* int(s), for s with IsIntLiteral(s)
IntValue(s) ==
    LET t == strip(s)
        v == DigitRunValue(Unsigned(t), 0)
    IN  IF t # <<>> /\ Head(t) = "-" THEN 0 - v ELSE v

(* ------------------------------ prefixes ------------------------------ *)
IssuePrefix == <<"I", "s", "s", "u", "e", ":">>
LinePrefix == <<"L", "i", "n", "e", ":">>
SuggestionPrefix == <<"S", "u", "g", "g", "e", "s", "t", "i", "o", "n", ":">>

(* ------------------------------- values ------------------------------- *)
\* a Python value the scan may meet: a str, or an object of another type
StrItem(s) == [type |-> "str", val |-> s]
NoneItem == [type |-> "NoneType", val |-> <<>>]

\* dict[k] = v
SetItem(d, k, v) == [x \in (DOMAIN d) \cup {k} |-> IF x = k THEN v ELSE d[x]]

\* truth value of current_issue: None and the empty dict are false
Truthy(cur) == cur # <<>> /\ DOMAIN cur[1] # {}

(* ------------------------- response universe -------------------------- *)
\* lines a response is made of: every prefix, with values that parse and
\* values that do not, a blank line, and an indented 'Issue:' line
IssueFoo ==
    <<"I", "s", "s", "u", "e", ":", " ", "f", "o", "o">>
IssueB ==
    <<"I", "s", "s", "u", "e", ":", "b", " ">>
LineTwelve ==
    <<"L", "i", "n", "e", ":", " ", "1", "2">>
LineBad ==
    <<"L", "i", "n", "e", ":", "x">>
LineNegative ==
    <<"L", "i", "n", "e", ":", "-", "3", " ">>
SuggestionBar ==
    <<"S", "u", "g", "g", "e", "s", "t", "i", "o", "n", ":", " ", "b", "a",
      "r">>
SuggestionS ==
    <<"S", "u", "g", "g", "e", "s", "t", "i", "o", "n", ":", "s">>
Blank == <<>>
IndentedIssue ==
    <<" ", "I", "s", "s", "u", "e", ":", " ", "f", "o", "o">>

LinePool ==
    {IssueFoo, IssueB, LineTwelve, LineBad, LineNegative, SuggestionBar,
     SuggestionS, Blank, IndentedIssue}

\* the two inputs the documentation of the parser spells out
ExampleFull ==
    <<"I", "s", "s", "u", "e", ":", " ", "f", "o", "o", "\n", "L", "i",
      "n", "e", ":", " ", "1", "2", "\n", "S", "u", "g", "g", "e", "s",
      "t", "i", "o", "n", ":", " ", "b", "a", "r", "\n">>
ExampleNotANumber ==
    <<"I", "s", "s", "u", "e", ":", " ", "f", "o", "o", "\n", "L", "i",
      "n", "e", ":", " ", "n", "o", "t", "a", "n", "u", "m", "b", "e", "r",
      "\n">>
\* two blocks back to back, each with its own line and suggestion
ExampleTwoBlocks ==
    <<"I", "s", "s", "u", "e", ":", " ", "f", "o", "o", "\n", "L", "i",
      "n", "e", ":", " ", "1", "2", "\n", "S", "u", "g", "g", "e", "s",
      "t", "i", "o", "n", ":", " ", "b", "a", "r", "\n", "I", "s", "s",
      "u", "e", ":", "b", " ", "\n", "L", "i", "n", "e", ":", "-", "3",
      " ", "\n", "S", "u", "g", "g", "e", "s", "t", "i", "o", "n", ":",
      "s">>

RECURSIVE Join(_)
Join(ls) ==
    IF Len(ls) = 0 THEN <<>>
    ELSE IF Len(ls) = 1 THEN ls[1]
    ELSE ls[1] \o <<"\n">> \o Join(Tail(ls))

SeqsUpTo(S, n) == UNION {[1..k -> S] : k \in 1..n}

Texts(pool, n) == {Join(ls) : ls \in SeqsUpTo(pool, n)}

StrResponse(text) == [type |-> "str", val |-> text]
\* a chat message object: it has content, and no split method
MessageResponse(text) == [type |-> "AIMessage", val |-> text]
\* an object whose split method returns val, items of any type
DuckResponse(items) == [type |-> "duck", val |-> items]

DuckItems == {StrItem(IssueFoo), StrItem(LineTwelve), NoneItem}

Responses ==
    {StrResponse(x) : x \in Texts(LinePool, MaxLines) \cup {<<>>, ExampleFull, ExampleNotANumber, ExampleTwoBlocks}}
    \cup {MessageResponse(ExampleFull)}
    \cup {DuckResponse(y) : y \in SeqsUpTo(DuckItems, MaxLines)}

\* the responses concurrent calls are given: the documented inputs, the
\* empty string, and the two kinds of response whose scan fails
ConcResponses ==
    {StrResponse(x) : x \in {<<>>, ExampleFull, ExampleNotANumber, ExampleTwoBlocks}}
    \cup {MessageResponse(IssueFoo)}
    \cup {DuckResponse(<<StrItem(IssueFoo), NoneItem>>)}

(* ------------------------------- state -------------------------------- *)
VARIABLES
    llm,            \* self.llm
    prompt,         \* self.prompt
    pc,             \* where each call of analyze stands
    diff,           \* the argument of each call
    invocations,    \* how often each call invoked chain.ainvoke
    response,       \* <<r>> once chain.ainvoke returned r to the call
    lines,          \* local lines of _extract_issues
    pos,            \* the item of lines the for loop comes to next
    issues,         \* local issues of _extract_issues
    current_issue,  \* local current_issue: <<>> is None, <<d>> a dict d
    printed,        \* what the call's except clause printed
    extracted,      \* the value _extract_issues returned
    result          \* <<r>> once analyze returned r to its caller

vars ==
    <<llm, prompt, pc, diff, invocations, response, lines, pos, issues,
      current_issue, printed, extracted, result>>

\* a call between the end of its await and its return holds the event loop
Running == {"parse", "loop", "extracted"}

Quiescent(c) == \A other \in Calls \ {c} : pc[other] \notin Running

PromptTemplate == <<"system", "human {diff}">>

Init ==
    /\ llm = "llm"
    /\ prompt = PromptTemplate
    /\ pc = [c \in Calls |-> "idle"]
    /\ diff = [c \in Calls |-> ""]
    /\ invocations = [c \in Calls |-> 0]
    /\ response = [c \in Calls |-> <<>>]
    /\ lines = [c \in Calls |-> <<>>]
    /\ pos = [c \in Calls |-> 0]
    /\ issues = [c \in Calls |-> <<>>]
    /\ current_issue = [c \in Calls |-> <<>>]
    /\ printed = [c \in Calls |-> <<>>]
    /\ extracted = [c \in Calls |-> <<>>]
    /\ result = [c \in Calls |-> <<>>]

(* ------------------------ the body of the scan ------------------------ *)
\* response.split exists
HasSplit(r) == r.type # "AIMessage"

\* response.split('\n')
SplitLines(r) ==
    IF r.type = "str"
    THEN LET parts == split(r.val, "\n")
         IN  [i \in 1..Len(parts) |-> StrItem(parts[i])]
    ELSE r.val

\* {'description': line[6:].strip()}
NewIssue(line) == [description |-> strip(SliceFrom(line, 6))]

\* LineField with another fallback
LineFieldMinusOne(line) ==
    LET rest == strip(SliceFrom(line, 5))
    IN  IF IsIntLiteral(rest) THEN IntValue(rest) ELSE 0 - 1

\* try: int(line[5:].strip()) except ValueError: 0
LineField(line) ==
    LET rest == strip(SliceFrom(line, 5))
    IN  IF IsIntLiteral(rest) THEN IntValue(rest) ELSE 0

\* SuggestionField without strip
SuggestionFieldUntrimmed(line) == SliceFrom(line, 11)

\* line[11:].strip()
SuggestionField(line) == strip(SliceFrom(line, 11))

\* Raises without the inner try: the ValueError of int leaves the loop
RaisesOnBadNumber(cur, item) ==
    \/ item.type # "str"
    \/ /\ ~startswith(item.val, IssuePrefix)
       /\ startswith(item.val, LinePrefix)
       /\ Truthy(cur)
       /\ ~IsIntLiteral(strip(SliceFrom(item.val, 5)))

\* one iteration raises an exception that leaves the loop
Raises(cur, item) == item.type # "str"

\* issues after one iteration over a str
StepIssues(iss, cur, line) ==
    IF startswith(line, IssuePrefix) /\ Truthy(cur)
    THEN Append(iss, cur[1])
    ELSE iss

\* StepCurrent that updates the open dict in place of making a new one
StepCurrentInherits(cur, line) ==
    IF startswith(line, IssuePrefix)
    THEN IF Truthy(cur)
         THEN <<SetItem(cur[1], "description", strip(SliceFrom(line, 6)))>>
         ELSE <<NewIssue(line)>>
    ELSE IF startswith(line, LinePrefix) /\ Truthy(cur)
    THEN <<SetItem(cur[1], "line", LineField(line))>>
    ELSE IF startswith(line, SuggestionPrefix) /\ Truthy(cur)
    THEN <<SetItem(cur[1], "suggestion", SuggestionField(line))>>
    ELSE cur

\* StepCurrent with setdefault: a field, once set, stays
StepCurrentFirstWins(cur, line) ==
    IF startswith(line, IssuePrefix)
    THEN <<NewIssue(line)>>
    ELSE IF startswith(line, LinePrefix) /\ Truthy(cur)
    THEN IF "line" \in DOMAIN cur[1] THEN cur
         ELSE <<SetItem(cur[1], "line", LineField(line))>>
    ELSE IF startswith(line, SuggestionPrefix) /\ Truthy(cur)
    THEN IF "suggestion" \in DOMAIN cur[1] THEN cur
         ELSE <<SetItem(cur[1], "suggestion", SuggestionField(line))>>
    ELSE cur

\* current_issue after one iteration over a str
StepCurrent(cur, line) ==
    IF startswith(line, IssuePrefix)
    THEN <<NewIssue(line)>>
    ELSE IF startswith(line, LinePrefix) /\ Truthy(cur)
    THEN <<SetItem(cur[1], "line", LineField(line))>>
    ELSE IF startswith(line, SuggestionPrefix) /\ Truthy(cur)
    THEN <<SetItem(cur[1], "suggestion", SuggestionField(line))>>
    ELSE cur

\* FinalIssues without the append after the loop
FinalIssuesDropsOpen(iss, cur) == iss

\* if current_issue: issues.append(current_issue)
FinalIssues(iss, cur) == IF Truthy(cur) THEN Append(iss, cur[1]) ELSE iss

_extract_suggestions(r) == <<>>

\* _calculate_complexity that measures the response
_calculate_complexityByLength(r) == Len(r.val)

_calculate_complexity(r) == 0

(* ------------------------------ actions ------------------------------- *)
\* analyze up to its await: chain = self.prompt | self.llm; chain.ainvoke
Analyze(c) ==
    /\ pc[c] = "idle"
    /\ Quiescent(c)
    /\ \E d \in Diffs : diff' = [diff EXCEPT ![c] = d]
    /\ invocations' = [invocations EXCEPT ![c] = @ + 1]
    /\ pc' = [pc EXCEPT ![c] = "awaiting"]
    /\ UNCHANGED <<llm, prompt, response, lines, pos, issues, current_issue,
                   printed, extracted, result>>

\* LlmRaise caught in analyze, which returns an empty result
LlmRaiseSwallowed(c) ==
    /\ pc[c] = "awaiting"
    /\ Quiescent(c)
    /\ result' = [result EXCEPT ![c] =
                     <<[issues |-> <<>>, suggestions |-> <<>>,
                        complexity_score |-> 0]>>]
    /\ pc' = [pc EXCEPT ![c] = "done"]
    /\ UNCHANGED <<llm, prompt, diff, invocations, response, lines, pos,
                   issues, current_issue, printed, extracted>>

\* the awaited chain.ainvoke raises: analyze has no handler
LlmRaise(c) ==
    /\ pc[c] = "awaiting"
    /\ Quiescent(c)
    /\ pc' = [pc EXCEPT ![c] = "raised"]
    /\ UNCHANGED <<llm, prompt, diff, invocations, response, lines, pos,
                   issues, current_issue, printed, extracted, result>>

\* the awaited chain.ainvoke returns r; _parse_response(r) is entered
LlmReturn(c, universe) ==
    /\ pc[c] = "awaiting"
    /\ Quiescent(c)
    /\ \E r \in universe : response' = [response EXCEPT ![c] = <<r>>]
    /\ pc' = [pc EXCEPT ![c] = "parse"]
    /\ UNCHANGED <<llm, prompt, diff, invocations, lines, pos, issues,
                   current_issue, printed, extracted, result>>

\* Handler that returns what the scan had gathered
HandlerKeepsIssues(c, e) ==
    /\ printed' = [printed EXCEPT ![c] = Append(@, e)]
    /\ extracted' = [extracted EXCEPT ![c] = issues[c]]
    /\ pc' = [pc EXCEPT ![c] = "extracted"]

\* except Exception as e: print(...); return []
Handler(c, e) ==
    /\ printed' = [printed EXCEPT ![c] = Append(@, e)]
    /\ extracted' = [extracted EXCEPT ![c] = <<>>]
    /\ pc' = [pc EXCEPT ![c] = "extracted"]

\* ExtractBegin with issues kept on the agent: a call starts from the list
\* the call before it left
ExtractBeginShared(c) ==
    /\ pc[c] = "parse"
    /\ issues' = [issues EXCEPT ![c] =
                     LET before == {o \in Calls \ {c} : pc[o] = "done"}
                     IN  IF before = {} THEN <<>>
                         ELSE issues[CHOOSE o \in before : TRUE]]
    /\ IF HasSplit(response[c][1])
       THEN /\ lines' = [lines EXCEPT ![c] = SplitLines(response[c][1])]
            /\ current_issue' = [current_issue EXCEPT ![c] = <<>>]
            /\ pos' = [pos EXCEPT ![c] = 1]
            /\ pc' = [pc EXCEPT ![c] = "loop"]
            /\ UNCHANGED <<printed, extracted>>
       ELSE /\ Handler(c, "AttributeError")
            /\ UNCHANGED <<lines, current_issue, pos>>
    /\ UNCHANGED <<llm, prompt, diff, invocations, response, result>>

\* _extract_issues up to the loop: issues = []; lines = response.split('\n');
\* current_issue = None
ExtractBegin(c) ==
    /\ pc[c] = "parse"
    /\ issues' = [issues EXCEPT ![c] = <<>>]
    /\ IF HasSplit(response[c][1])
       THEN /\ lines' = [lines EXCEPT ![c] = SplitLines(response[c][1])]
            /\ current_issue' = [current_issue EXCEPT ![c] = <<>>]
            /\ pos' = [pos EXCEPT ![c] = 1]
            /\ pc' = [pc EXCEPT ![c] = "loop"]
            /\ UNCHANGED <<printed, extracted>>
       ELSE /\ Handler(c, "AttributeError")
            /\ UNCHANGED <<lines, current_issue, pos>>
    /\ UNCHANGED <<llm, prompt, diff, invocations, response, result>>

\* one iteration of: for line in lines
LoopStep(c) ==
    /\ pc[c] = "loop"
    /\ pos[c] <= Len(lines[c])
    /\ LET item == lines[c][pos[c]]
       IN  IF Raises(current_issue[c], item)
           THEN /\ Handler(c, "AttributeError")
                /\ UNCHANGED <<issues, current_issue, pos>>
           ELSE /\ issues' = [issues EXCEPT ![c] =
                                 StepIssues(@, current_issue[c], item.val)]
                /\ current_issue' = [current_issue EXCEPT ![c] =
                                        StepCurrent(@, item.val)]
                /\ pos' = [pos EXCEPT ![c] = @ + 1]
                /\ UNCHANGED <<pc, printed, extracted>>
    /\ UNCHANGED <<llm, prompt, diff, invocations, response, lines, result>>

\* after the loop: if current_issue: issues.append(current_issue); return issues
ExtractEnd(c) ==
    /\ pc[c] = "loop"
    /\ pos[c] > Len(lines[c])
    /\ issues' = [issues EXCEPT ![c] = FinalIssues(@, current_issue[c])]
    /\ extracted' = [extracted EXCEPT ![c] = issues'[c]]
    /\ pc' = [pc EXCEPT ![c] = "extracted"]
    /\ UNCHANGED <<llm, prompt, diff, invocations, response, lines, pos,
                   current_issue, printed, result>>

\* the rest of _parse_response, and analyze returns its dict
ParseReturn(c) ==
    /\ pc[c] = "extracted"
    /\ result' = [result EXCEPT ![c] =
                     <<[issues |-> extracted[c],
                        suggestions |-> _extract_suggestions(response[c][1]),
                        complexity_score |-> _calculate_complexity(response[c][1])]>>]
    /\ pc' = [pc EXCEPT ![c] = "done"]
    /\ UNCHANGED <<llm, prompt, diff, invocations, response, lines, pos,
                   issues, current_issue, printed, extracted>>

(* --------------------------- specifications --------------------------- *)
\* one call of analyze, over every response of the universe
Next ==
    \E c \in SeqCalls :
        \/ Analyze(c)
        \/ LlmRaise(c)
        \/ LlmReturn(c, Responses)
        \/ ExtractBegin(c)
        \/ LoopStep(c)
        \/ ExtractEnd(c)
        \/ ParseReturn(c)

Spec == Init /\ [][Next]_vars

\* concurrent calls of analyze on one agent, interleaved at their awaits
NextConc ==
    \E c \in Calls :
        \/ Analyze(c)
        \/ LlmRaise(c)
        \/ LlmReturn(c, ConcResponses)
        \/ ExtractBegin(c)
        \/ LoopStep(c)
        \/ ExtractEnd(c)
        \/ ParseReturn(c)

SpecConc == Init /\ [][NextConc]_vars

(* ------------------- the input, read independently -------------------- *)
NthOf(S, k) == CHOOSE x \in S : Cardinality({y \in S : y < x}) = k - 1

MaxOf(S) == CHOOSE x \in S : \A y \in S : y <= x

\* the lines of a text: what lies between consecutive newline characters
RefLines(text) ==
    LET nl == {i \in 1..Len(text) : text[i] = "\n"}
        n == Cardinality(nl) + 1
        lo(k) == IF k = 1 THEN 0 ELSE NthOf(nl, k - 1)
        hi(k) == IF k = n THEN Len(text) + 1 ELSE NthOf(nl, k)
    IN  [k \in 1..n |-> SubSeq(text, lo(k) + 1, hi(k) - 1)]

\* the positions of the lines of L that start with a prefix
LinesWith(L, prefix) == {i \in 1..Len(L) : startswith(L[i], prefix)}

\* the block of the k-th 'Issue:' line: the lines after it, up to the next
Block(L, k) ==
    LET at == LinesWith(L, IssuePrefix)
        next == IF k = Cardinality(at) THEN Len(L) + 1 ELSE NthOf(at, k + 1)
    IN  (NthOf(at, k) + 1)..(next - 1)

BlockWith(L, k, prefix) == Block(L, k) \cap LinesWith(L, prefix)

\* the text after a prefix, trimmed
Remainder(line, prefix) == strip(SubSeq(line, Len(prefix) + 1, Len(line)))

\* the number a 'Line:' line gives: its integer, 0 when it is not one
RefNumber(line) ==
    IF IsIntLiteral(Remainder(line, LinePrefix))
    THEN IntValue(Remainder(line, LinePrefix))
    ELSE 0

\* a call whose _extract_issues returned, on a response that is a string
Scanned(c) == pc[c] \in {"extracted", "done"} /\ response[c][1].type = "str"

Input(c) == RefLines(response[c][1].val)

\* the record of the k-th block, from the last line of each kind in it
RefIssue(L, k) ==
    LET head == L[NthOf(LinesWith(L, IssuePrefix), k)]
        ln == BlockWith(L, k, LinePrefix)
        sg == BlockWith(L, k, SuggestionPrefix)
        keys == {"description"}
                  \cup (IF ln = {} THEN {} ELSE {"line"})
                  \cup (IF sg = {} THEN {} ELSE {"suggestion"})
    IN  [x \in keys |->
            IF x = "description" THEN Remainder(head, IssuePrefix)
            ELSE IF x = "line" THEN RefNumber(L[MaxOf(ln)])
            ELSE Remainder(L[MaxOf(sg)], SuggestionPrefix)]

RefIssues(L) ==
    [k \in 1..Cardinality(LinesWith(L, IssuePrefix)) |-> RefIssue(L, k)]

\* what a response parses to
RefParse(r) ==
    [issues |->
        IF r.type = "str" THEN RefIssues(RefLines(r.val))
        ELSE IF r.type = "duck" /\ \A i \in 1..Len(r.val) : r.val[i].type = "str"
        THEN RefIssues([i \in 1..Len(r.val) |-> r.val[i].val])
        ELSE <<>>,
     suggestions |-> <<>>,
     complexity_score |-> 0]

(* ------------------------------- claims ------------------------------- *)
\* C1: the issues _extract_issues returns for a response string are one
\* record per line that starts with 'Issue:', in the order of those lines:
\* none when no line starts with 'Issue:', and the last block included.
C1_OneRecordPerIssueLine ==
    \A c \in Calls :
        Scanned(c) =>
            LET L == Input(c)
                at == LinesWith(L, IssuePrefix)
            IN  /\ Len(extracted[c]) = Cardinality(at)
                /\ \A k \in 1..Len(extracted[c]) :
                      extracted[c][k].description
                          = Remainder(L[NthOf(at, k)], IssuePrefix)

C1_Witness ==
    \E c \in Calls :
        /\ Scanned(c)
        /\ Len(extracted[c]) = 2
        /\ extracted[c][1].description # extracted[c][2].description
        /\ Len(Input(c)) \notin LinesWith(Input(c), IssuePrefix)

\* C2: a response of an 'Issue:' line with text d, a 'Line:' line with the
\* integer n and a 'Suggestion:' line with text s (and at most a final
\* newline) gives exactly one record, of exactly the three fields
\* description = trim(d), line = n, suggestion = trim(s); the documented
\* example gives description 'foo', line 12, suggestion 'bar'.
C2_FullBlock ==
    \A c \in Calls :
        Scanned(c) =>
            LET L == Input(c)
            IN  /\ ( /\ Len(L) \in {3, 4}
                     /\ Len(L) = 4 => L[4] = <<>>
                     /\ startswith(L[1], IssuePrefix)
                     /\ startswith(L[2], LinePrefix)
                     /\ IsIntLiteral(Remainder(L[2], LinePrefix))
                     /\ startswith(L[3], SuggestionPrefix) )
                   => extracted[c]
                        = << [description |-> Remainder(L[1], IssuePrefix),
                              line |-> IntValue(Remainder(L[2], LinePrefix)),
                              suggestion |-> Remainder(L[3], SuggestionPrefix)] >>
                /\ response[c][1].val = ExampleFull
                   => extracted[c]
                        = << [description |-> <<"f", "o", "o">>,
                              line |-> 12,
                              suggestion |-> <<"b", "a", "r">>] >>

C2_Witness ==
    \E c \in Calls :
        /\ pc[c] = "done"
        /\ response[c][1] = StrResponse(ExampleFull)
        /\ Len(result[c][1].issues) = 1
        /\ result[c][1].issues[1].line = 12

\* C3: a 'Line:' line of an open block whose value is no integer sets that
\* issue's line to 0, the except clause of _extract_issues is not entered,
\* and the scan goes on: every issue of the input is emitted with its own
\* fields.
BadNumbers(L) ==
    {i \in LinesWith(L, LinePrefix) :
        /\ ~IsIntLiteral(Remainder(L[i], LinePrefix))
        /\ \E j \in LinesWith(L, IssuePrefix) : j < i}

C3_BadNumberIsLocal ==
    \A c \in Calls :
        /\ ( /\ pc[c] = "loop"
             /\ response[c][1].type = "str"
             /\ pos[c] - 1 \in BadNumbers(Input(c)) )
           => /\ current_issue[c] # <<>>
              /\ "line" \in DOMAIN current_issue[c][1]
              /\ current_issue[c][1].line = 0
              /\ printed[c] = <<>>
        /\ ( /\ response[c] # <<>>
             /\ response[c][1].type = "str"
             /\ BadNumbers(Input(c)) # {} )
           => /\ printed[c] = <<>>
              /\ pc[c] = "loop" => pos[c] <= Len(Input(c)) + 1
              /\ pc[c] \in {"extracted", "done"}
                   => extracted[c] = RefIssues(Input(c))

C3_Witness ==
    \E c \in Calls :
        /\ Scanned(c)
        /\ 2 \in BadNumbers(Input(c))
        /\ 3 \in LinesWith(Input(c), IssuePrefix)
        /\ printed[c] = <<>>
        /\ Len(extracted[c]) = 2
        /\ extracted[c][1].line = 0

\* C4: the fields of an emitted issue come from the lines of its own block:
\* it has a suggestion exactly when its block has a 'Suggestion:' line, and
\* its line and suggestion values are values of lines of its block.
C4_FieldsFromOwnBlock ==
    \A c \in Calls :
        Scanned(c) =>
            LET L == Input(c)
            IN  \A k \in 1..Len(extracted[c]) :
                    LET e == extracted[c][k]
                    IN  /\ k <= Cardinality(LinesWith(L, IssuePrefix))
                        /\ DOMAIN e \subseteq {"description", "line", "suggestion"}
                        /\ "suggestion" \in DOMAIN e
                             <=> BlockWith(L, k, SuggestionPrefix) # {}
                        /\ "suggestion" \in DOMAIN e
                             => \E i \in BlockWith(L, k, SuggestionPrefix) :
                                    e.suggestion = Remainder(L[i], SuggestionPrefix)
                        /\ "line" \in DOMAIN e
                             => \E i \in BlockWith(L, k, LinePrefix) :
                                    e.line = RefNumber(L[i])

C4_Witness ==
    \E c \in Calls :
        /\ Scanned(c)
        /\ response[c][1].val = ExampleTwoBlocks
        /\ Len(extracted[c]) = 2
        /\ extracted[c][1].line = 12
        /\ extracted[c][2].line = 0 - 3
        /\ extracted[c][1].suggestion # extracted[c][2].suggestion

\* the same, for a block that has no 'Suggestion:' line after one that has
C4_WitnessBare ==
    \E c \in Calls :
        /\ Scanned(c)
        /\ Len(extracted[c]) = 2
        /\ "suggestion" \in DOMAIN extracted[c][1]
        /\ DOMAIN extracted[c][2] = {"description"}

\* C5, as stated: every emitted issue has an integer line field, 0 when no
\* parseable line number was given, also when its block has no 'Line:' line.
C5_EveryIssueHasLine ==
    \A c \in Calls :
        Scanned(c) =>
            \A k \in 1..Len(extracted[c]) :
                /\ "line" \in DOMAIN extracted[c][k]
                /\ extracted[c][k].line \in Int

\* C5, amended: every emitted issue has a description; it has a line field
\* exactly when its block has a 'Line:' line, and then the field is an
\* integer, 0 when the last 'Line:' value of the block is no integer; line
\* and suggestion are both optional.
C5_LineOnlyWhenGiven ==
    \A c \in Calls :
        Scanned(c) =>
            LET L == Input(c)
            IN  \A k \in 1..Len(extracted[c]) :
                    LET e == extracted[c][k]
                        ln == BlockWith(L, k, LinePrefix)
                    IN  /\ k <= Cardinality(LinesWith(L, IssuePrefix))
                        /\ "description" \in DOMAIN e
                        /\ "line" \in DOMAIN e <=> ln # {}
                        /\ "line" \in DOMAIN e
                             => /\ e.line \in Int
                                /\ ~IsIntLiteral(Remainder(L[MaxOf(ln)], LinePrefix))
                                     => e.line = 0

C5_Witness ==
    \E c \in Calls :
        /\ Scanned(c)
        /\ Len(extracted[c]) = 2
        /\ "line" \in DOMAIN extracted[c][1]
        /\ extracted[c][1].line = 0
        /\ "line" \notin DOMAIN extracted[c][2]

\* C6: whatever response _parse_response is given, the empty string and a
\* response whose scan fails included, suggestions is the empty sequence and
\* complexity_score is 0.
C6_StubsAreConstant ==
    \A c \in Calls :
        pc[c] = "done" =>
            /\ result[c] # <<>>
            /\ result[c][1].suggestions = <<>>
            /\ result[c][1].complexity_score = 0

C6_Witness ==
    \E c \in Calls :
        /\ pc[c] = "done"
        /\ printed[c] # <<>>
        /\ response[c][1].val # <<>>
        /\ result[c][1].suggestions = <<>>
        /\ result[c][1].complexity_score = 0

\* C7: an exception of the scan other than the ValueError of a 'Line:' value
\* is reported, _extract_issues returns the empty sequence and drops the
\* issues it had gathered; the exception does not reach the caller, and the
\* result has the keys issues, suggestions, complexity_score.
ScanFails(r) ==
    \/ r.type = "AIMessage"
    \/ r.type = "duck" /\ \E i \in 1..Len(r.val) : r.val[i].type # "str"

C7_ScanFailureGivesEmpty ==
    \A c \in Calls :
        response[c] # <<>> =>
            /\ pc[c] # "raised"
            /\ (pc[c] \in {"extracted", "done"} /\ ScanFails(response[c][1]))
                 => Len(printed[c]) = 1 /\ extracted[c] = <<>>
            /\ pc[c] = "done"
                 => /\ DOMAIN result[c][1]
                         = {"issues", "suggestions", "complexity_score"}
                    /\ ScanFails(response[c][1]) => result[c][1].issues = <<>>

C7_Witness ==
    \E c \in Calls :
        /\ pc[c] = "done"
        /\ ScanFails(response[c][1])
        /\ issues[c] # <<>>
        /\ current_issue[c] # <<>>
        /\ printed[c] # <<>>
        /\ result[c][1].issues = <<>>

\* C8: a call of analyze invokes the model collaborator exactly once and
\* parses only once its response has arrived; when the collaborator raises,
\* the exception goes to the caller: the parse never runs and no result is
\* returned in its place.
C8_OneInvocationThenParse ==
    \A c \in Calls :
        /\ invocations[c] = (IF pc[c] = "idle" THEN 0 ELSE 1)
        /\ pc[c] \in Running \cup {"done"} => response[c] # <<>>
        /\ result[c] # <<>> => response[c] # <<>> /\ pc[c] = "done"
        /\ pc[c] \in {"idle", "awaiting", "raised"}
             => /\ response[c] = <<>>
                /\ result[c] = <<>>
                /\ lines[c] = <<>>
                /\ pos[c] = 0
                /\ issues[c] = <<>>
                /\ printed[c] = <<>>

C8_Witness ==
    \E c \in Calls :
        /\ pc[c] = "raised"
        /\ invocations[c] = 1
        /\ result[c] = <<>>

\* the same, for a call that returned
C8_WitnessReturned ==
    \E c \in Calls :
        /\ pc[c] = "done"
        /\ invocations[c] = 1
        /\ result[c] # <<>>

\* C9: with calls of analyze interleaved at their awaits in any order, the
\* result of each is the parse of the response delivered to that call; a
\* step changes the locals of one call at most, and never self.llm or
\* self.prompt.
Locals(c) ==
    <<response[c], lines[c], pos[c], issues[c], current_issue[c], printed[c],
      extracted[c], result[c]>>

C9_ResultIsOwnParse ==
    \A c \in Calls :
        pc[c] = "done" => result[c][1] = RefParse(response[c][1])

C9_StepIsLocal ==
    /\ llm' = llm
    /\ prompt' = prompt
    /\ \A c, o \in Calls :
          (c # o /\ Locals(c)' # Locals(c)) => Locals(o)' = Locals(o)

C9_CallsIndependent == []C9_ResultIsOwnParse /\ [][C9_StepIsLocal]_vars

C9_Witness ==
    \E c, o \in Calls :
        /\ c # o
        /\ pc[c] = "done"
        /\ pc[o] = "done"
        /\ response[c] # response[o]
        /\ result[c][1].issues # <<>>
        /\ result[o][1].issues # <<>>
        /\ result[c] # result[o]

\* C10: when a block has several 'Line:' lines or several 'Suggestion:'
\* lines, the last of each kind gives the emitted field; a later 'Line:'
\* value that is no integer overwrites an earlier number with 0.
C10_LastOneWins ==
    \A c \in Calls :
        Scanned(c) =>
            LET L == Input(c)
            IN  \A k \in 1..Len(extracted[c]) :
                    LET e == extracted[c][k]
                        ln == BlockWith(L, k, LinePrefix)
                        sg == BlockWith(L, k, SuggestionPrefix)
                    IN  /\ k <= Cardinality(LinesWith(L, IssuePrefix))
                        /\ ln # {} => /\ "line" \in DOMAIN e
                                      /\ e.line = RefNumber(L[MaxOf(ln)])
                        /\ sg # {} => /\ "suggestion" \in DOMAIN e
                                      /\ e.suggestion
                                           = Remainder(L[MaxOf(sg)], SuggestionPrefix)

C10_Witness ==
    \E c \in Calls :
        /\ Scanned(c)
        /\ Len(extracted[c]) = 1
        /\ LET ln == BlockWith(Input(c), 1, LinePrefix)
           IN  /\ Cardinality(ln) = 2
               /\ \E i \in ln : i # MaxOf(ln) /\ RefNumber(Input(c)[i]) # 0
               /\ ~IsIntLiteral(Remainder(Input(c)[MaxOf(ln)], LinePrefix))
        /\ extracted[c][1].line = 0

\* the same, for two 'Suggestion:' lines
C10_WitnessSuggestion ==
    \E c \in Calls :
        /\ Scanned(c)
        /\ Len(extracted[c]) = 1
        /\ LET sg == BlockWith(Input(c), 1, SuggestionPrefix)
           IN  /\ Cardinality(sg) = 2
               /\ \E i \in sg :
                     Remainder(Input(c)[i], SuggestionPrefix)
                        # extracted[c][1].suggestion

====
